---- MODULE Spec2Model ----
(***************************************************************************)
(* Model of mne/simulation/metrics.py: _check_stc and                      *)
(* source_estimate_quantification.                                         *)
(*                                                                         *)
(* A source estimate is a record [shape, data, times]: shape is the pair   *)
(* data.shape = (n_locations, n_times), data is the matrix flattened in    *)
(* row-major order (what data.flatten() yields), and times is the 1-D      *)
(* array of time stamps, one per column of the matrix.                     *)
(*                                                                         *)
(* Matrix elements are small integers, on which float64 addition,          *)
(* subtraction and multiplication are exact. A float result is kept in     *)
(* closed form: Float(a, s, n, d) is the number a + s * sqrt(n / d); the   *)
(* quotient 0 / 0 is nan, as in IEEE arithmetic with numpy's default       *)
(* error state (a RuntimeWarning, no exception).                           *)
(***************************************************************************)
EXTENDS Integers, Sequences, FiniteSets

VARIABLES stc1, stc2, metric, src, pc, outcome, arith, last

vars == <<stc1, stc2, metric, src, pc, outcome, arith, last>>

\* Largest number of locations, of time points and of matrix elements.
MaxLen == 2

\* Values a matrix element takes, and values a time stamp takes.
DataValues == {0, 1}
TimeValues == {0, 1}

\* Metric identifiers a caller passes: the four accepted ones, two that the
\* docstring lists but the code rejects, and a made-up one.
Metrics == {"rms", "cosine", "distance_err", "weighted_distance_err",
            "rms_normed", "corr", "bogus"}

\* The src argument: None, or some source space (never inspected).
SrcValues == {"None", "src"}

Shapes == {sh \in (0..MaxLen) \X (0..MaxLen) : sh[1] * sh[2] <= MaxLen}

SeqsOfLen(S, n) == [1..n -> S]

SourceEstimates ==
    UNION {[shape : {sh}, data : SeqsOfLen(DataValues, sh[1] * sh[2]),
            times : SeqsOfLen(TimeValues, sh[2])] : sh \in Shapes}

EmptyStc == [shape |-> <<0, 0>>, data |-> <<>>, times |-> <<>>]

----------------------------------------------------------------------------
(* Outcomes of a call *)

Running == [kind |-> "running", error |-> "", value |-> [type |-> "none"]]
Raise(e) == [kind |-> "raise", error |-> e, value |-> [type |-> "none"]]
Return(v) == [kind |-> "return", error |-> "", value |-> v]

NoneValue == [type |-> "None"]
NaN == [type |-> "nan"]

RECURSIVE Gcd(_, _)
Gcd(a, b) == IF b = 0 THEN a ELSE Gcd(b, a % b)

\* The float a + s * sqrt(n / d), n >= 0, d > 0, in canonical form.
Float(a, s, n, d) ==
    IF s = 0 \/ n = 0
    THEN [type |-> "float", a |-> a, s |-> 0, n |-> 0, d |-> 1]
    ELSE [type |-> "float", a |-> a, s |-> s,
          n |-> n \div Gcd(n, d), d |-> d \div Gcd(n, d)]

IsZero(v) ==
    /\ v.type = "float"
    /\ \/ v.a = 0 /\ v.s = 0
       \/ v.a = 1 /\ v.s = -1 /\ v.n = v.d

IsNegative(v) ==
    /\ v.type = "float"
    /\ \/ v.a = 0 /\ v.s = -1
       \/ v.a = 1 /\ v.s = -1 /\ v.n > v.d

----------------------------------------------------------------------------
(* numpy / scipy primitives, on flattened matrices *)

RECURSIVE SumSeq(_)
SumSeq(s) == IF s = <<>> THEN 0 ELSE Head(s) + SumSeq(Tail(s))

Sub(d1, d2) == [i \in 1..Len(d1) |-> d1[i] - d2[i]]
Square(d) == [i \in 1..Len(d) |-> d[i] * d[i]]
Dot(d1, d2) == SumSeq([i \in 1..Len(d1) |-> d1[i] * d2[i]])
Sign(x) == IF x > 0 THEN 1 ELSE IF x < 0 THEN -1 ELSE 0

\* np.all(t1 != t2): every position differs; True on empty arrays.
np_all_ne(t1, t2) == \A i \in 1..Len(t1) : t1[i] # t2[i]

\* np.mean(x): sum / size; nan (0 / 0) for an empty array. The pair is the
\* numerator and the denominator of the quotient.
np_mean(x) == IF Len(x) = 0 THEN NaN ELSE [type |-> "ratio", n |-> SumSeq(x), d |-> Len(x)]

\* np.sqrt(m) of a mean: nan for nan and for a negative number.
np_sqrt(m) ==
    IF m.type = "nan" \/ m.n < 0 THEN NaN ELSE Float(0, 1, m.n, m.d)

\* scipy.linalg.norm(data) squared: the sum of the squared elements
\* (the norm itself is the Frobenius norm, the root of this sum).
norm2(d) == SumSeq(Square(d))

----------------------------------------------------------------------------
(* The code *)

\* The metric set of the docstring (lines 32-33), which is not the accepted one.
docstring_metrics == {"rms", "rms_normed", "corr", "distance_err",
                      "weighted_distance_err"}

\* lines 52-53
known_metrics == {"rms", "cosine", "distance_err", "weighted_distance_err"}

\* The list of line 59 with its second metric left out.
needs_src_first_only == {"distance_err"}

\* line 59: the metrics that need the source space
needs_src == {"distance_err", "weighted_distance_err"}

\* _check_stc compared on the number of elements instead of the shape.
check_stc_size(s1, s2) ==
    IF Len(s1.data) # Len(s2.data) THEN "ShapeMismatch"
    ELSE IF Len(s1.times) = Len(s2.times) /\ np_all_ne(s1.times, s2.times)
         THEN "TimeMismatch"
         ELSE "ok"

\* _check_stc (lines 14-19): the error it raises, or "ok".
\*   ShapeMismatch: ValueError('Data in stcs must have the same size')
\*   TimeMismatch:  ValueError('Times of two stcs must match.')
check_stc(s1, s2) ==
    IF s1.shape # s2.shape THEN "ShapeMismatch"
    ELSE IF np_all_ne(s1.times, s2.times) THEN "TimeMismatch"
    ELSE "ok"

\* line 70 without the square: the root of the mean difference.
rms_nosquare(data1, data2) == np_sqrt(np_mean(Sub(data1, data2)))

\* line 70: np.sqrt(np.mean((data1 - data2) ** 2))
rms(data1, data2) == np_sqrt(np_mean(Square(Sub(data1, data2))))

\* lines 74-76: 1 - np.correlate(flat1, flat2) / (norm(data1) * norm(data2)).
\* np.correlate raises ValueError on empty arrays ("first array argument
\* cannot be empty"); with a zero norm the dot product is 0 too, and 0 / 0
\* is nan.
cosine(data1, data2) ==
    IF Len(data1) = 0 THEN Raise("EmptyCorrelate")
    ELSE IF norm2(data1) * norm2(data2) = 0 THEN Return(NaN)
    ELSE Return(Float(1, 0 - Sign(Dot(data1, data2)),
                      Dot(data1, data2) * Dot(data1, data2),
                      norm2(data1) * norm2(data2)))

----------------------------------------------------------------------------
(* The state machine: a caller, and the call's position in the code *)

NoLast == [kind |-> "nolast", error |-> "", value |-> [type |-> "none"]]

\* No call in progress; the arguments hold the signature's defaults
\* (line 22: metric='rms', src=None).
Init ==
    /\ stc1 = EmptyStc
    /\ stc2 = EmptyStc
    /\ metric = "rms"
    /\ src = "None"
    /\ pc = "caller"
    /\ outcome = Running
    /\ arith = FALSE
    /\ last = NoLast

\* line 22: the caller enters the function with arguments of its choice.
Call ==
    /\ pc = "caller"
    /\ \E s1 \in SourceEstimates, s2 \in SourceEstimates,
          m \in Metrics, sp \in SrcValues :
          /\ stc1' = s1
          /\ stc2' = s2
          /\ metric' = m
          /\ src' = sp
    /\ pc' = "L54"
    /\ outcome' = Running
    /\ arith' = FALSE
    /\ last' = NoLast

\* Lines 54-57 placed after the compatibility check of line 65.
CheckMetricAfterStc ==
    /\ pc = "L54"
    /\ IF check_stc(stc1, stc2) # "ok"
       THEN outcome' = Raise(check_stc(stc1, stc2)) /\ pc' = "done"
       ELSE IF metric \notin known_metrics
            THEN outcome' = Raise("UnknownMetric") /\ pc' = "done"
            ELSE outcome' = outcome /\ pc' = "L59"
    /\ UNCHANGED <<stc1, stc2, metric, src, arith, last>>

\* lines 54-57: ValueError('metric must be a str from the known metrics...')
CheckMetric ==
    /\ pc = "L54"
    /\ IF metric \notin known_metrics
       THEN outcome' = Raise("UnknownMetric") /\ pc' = "done"
       ELSE outcome' = outcome /\ pc' = "L59"
    /\ UNCHANGED <<stc1, stc2, metric, src, arith, last>>

\* lines 59-61: ValueError('The source space src is needed when using ...')
CheckSrc ==
    /\ pc = "L59"
    /\ IF metric \in needs_src /\ src = "None"
       THEN outcome' = Raise("MissingSourceSpace") /\ pc' = "done"
       ELSE outcome' = outcome /\ pc' = "L65"
    /\ UNCHANGED <<stc1, stc2, metric, src, arith, last>>

\* line 65: _check_stc(stc1, stc2)
CheckStc ==
    /\ pc = "L65"
    /\ IF check_stc(stc1, stc2) # "ok"
       THEN outcome' = Raise(check_stc(stc1, stc2)) /\ pc' = "done"
       ELSE outcome' = outcome /\ pc' = "L66"
    /\ UNCHANGED <<stc1, stc2, metric, src, arith, last>>

\* Lines 66-76 with the difference of line 70 taken in place
\* (data1 -= data2), which writes into stc1.data.
ComputeInPlace ==
    /\ pc = "L66"
    /\ arith' = TRUE
    /\ outcome' = CASE metric = "rms" -> Return(rms(stc1.data, stc2.data))
                    [] metric = "cosine" -> cosine(stc1.data, stc2.data)
                    [] OTHER -> Return(NoneValue)
    /\ stc1' = IF metric = "rms"
               THEN [stc1 EXCEPT !.data = Sub(stc1.data, stc2.data)]
               ELSE stc1
    /\ pc' = "done"
    /\ UNCHANGED <<stc2, metric, src, last>>

\* lines 66-76: the metric arithmetic. No branch matches 'distance_err' or
\* 'weighted_distance_err': the function ends and returns None.
Compute ==
    /\ pc = "L66"
    /\ arith' = TRUE
    /\ outcome' = CASE metric = "rms" -> Return(rms(stc1.data, stc2.data))
                    [] metric = "cosine" -> cosine(stc1.data, stc2.data)
                    [] OTHER -> Return(NoneValue)
    /\ pc' = "done"
    /\ UNCHANGED <<stc1, stc2, metric, src, last>>

\* The caller calls again with the same objects; last keeps what the
\* previous call did.
Repeat ==
    /\ pc = "done"
    /\ last' = outcome
    /\ outcome' = Running
    /\ arith' = FALSE
    /\ pc' = "L54"
    /\ UNCHANGED <<stc1, stc2, metric, src>>

\* The caller takes the result and drops the arguments.
Finish ==
    /\ pc = "done"
    /\ stc1' = EmptyStc
    /\ stc2' = EmptyStc
    /\ metric' = "rms"
    /\ src' = "None"
    /\ pc' = "caller"
    /\ outcome' = Running
    /\ arith' = FALSE
    /\ last' = NoLast

Next ==
    \/ Call
    \/ CheckMetric
    \/ CheckSrc
    \/ CheckStc
    \/ Compute
    \/ Repeat
    \/ Finish

Spec == Init /\ [][Next]_vars

----------------------------------------------------------------------------
(* Vocabulary of the properties *)

Done == pc = "done"
AcceptedSet == {"rms", "cosine", "distance_err", "weighted_distance_err"}
DistanceSet == {"distance_err", "weighted_distance_err"}
ValidationErrors == {"UnknownMetric", "MissingSourceSpace", "ShapeMismatch",
                     "TimeMismatch"}
SameShape == stc1.shape = stc2.shape
\* The metric is an accepted one and comes with a source space if it needs one.
MetricAndSrcValid ==
    /\ metric \in AcceptedSet
    /\ metric \in DistanceSet => src # "None"

----------------------------------------------------------------------------
\* C1: for two source estimates with data of the same shape (and a known
\* metric that has the source space it needs), time arrays that are not
\* element-wise equal make the call fail with the time-mismatch error.
C1_TimeMismatchRaised ==
    (Done /\ MetricAndSrcValid /\ SameShape /\ stc1.times # stc2.times)
        => outcome = Raise("TimeMismatch")

\* C2: with metric 'distance_err' or 'weighted_distance_err', a source space
\* and two compatible source estimates (equal shapes, equal and non-empty
\* time arrays), the call ends in an explicit not-implemented error.
C2_NotImplementedRaised ==
    (Done /\ metric \in DistanceSet /\ src # "None" /\ SameShape
          /\ stc1.times = stc2.times /\ Len(stc1.times) > 0)
        => outcome = Raise("NotImplemented")

\* C3: a matrix with at least one element (the all-zero matrix included)
\* compared with itself under equal times gives 0 for 'rms' and 0 for 'cosine'.
C3_SelfComparisonIsZero ==
    (Done /\ metric \in {"rms", "cosine"} /\ stc1 = stc2 /\ Len(stc1.data) > 0)
        => (outcome.kind = "return" /\ IsZero(outcome.value))

\* C4: data matrices of different shapes make a call with a known metric (and
\* a source space when the metric needs one) fail with the shape-mismatch
\* error, whatever the time arrays are, before any metric arithmetic.
C4_ShapeMismatchRaised ==
    (Done /\ MetricAndSrcValid /\ ~SameShape)
        => (outcome = Raise("ShapeMismatch") /\ ~arith)

C4_Witness ==
    /\ Done /\ metric = "cosine"
    /\ stc1.shape = <<1, 2>> /\ stc2.shape = <<2, 1>>
    /\ outcome = Raise("ShapeMismatch")

C6_MissingSourceSpaceIff ==
    Done => (outcome = Raise("MissingSourceSpace")
                <=> (metric \in DistanceSet /\ src = "None"))

C6_Witness ==
    /\ Done /\ metric = "weighted_distance_err" /\ src = "None"
    /\ outcome = Raise("MissingSourceSpace")

InCall == pc \in {"L54", "L59", "L65", "L66"}
ArgumentsKept == stc1' = stc1 /\ stc2' = stc2 /\ src' = src /\ metric' = metric

\* C8: no step of a call changes the data, the times, the source space or the
\* metric argument, and a call repeated on the same arguments ends as the
\* call before it did.
C8_ArgumentsUnchangedAndStateless ==
    /\ [][InCall => ArgumentsKept]_vars
    /\ []((Done /\ last # NoLast) => outcome = last)

C8_Witness ==
    /\ Done /\ last # NoLast /\ metric = "rms"
    /\ outcome.kind = "return" /\ ~IsZero(outcome.value)

\* C9: for 'rms' or 'cosine', equal shapes and element-wise equal time arrays
\* of any length (zero included) pass validation and reach the computation.
C9_CompatiblePassValidation ==
    (Done /\ metric \in {"rms", "cosine"} /\ SameShape
          /\ stc1.times = stc2.times)
        => (arith /\ ~(outcome.kind = "raise"
                        /\ outcome.error \in ValidationErrors))

\* The error is chosen in the order unknown metric, missing source space,
\* shape mismatch, time mismatch.
ErrorOrder ==
    /\ metric \notin AcceptedSet => outcome = Raise("UnknownMetric")
    /\ (metric \in DistanceSet /\ src = "None")
          => outcome = Raise("MissingSourceSpace")
    /\ (MetricAndSrcValid /\ ~SameShape) => outcome = Raise("ShapeMismatch")
    /\ outcome = Raise("TimeMismatch") => (MetricAndSrcValid /\ SameShape)

====
